---- MODULE Spec2Model ----
(***************************************************************************)
(* typesafe-bus: PubSub with a per-topic MessageQueue and an optional      *)
(* MessageCombinator.  JavaScript runs one piece of synchronous code at a  *)
(* time: `running` names the publish call whose synchronous code is on the *)
(* stack (0: the event loop is idle and any task may start), and `inCb`    *)
(* the subscription whose callback body is executing (0: none).  A         *)
(* callback is opaque user code: its result is chosen when it returns, and *)
(* the API calls enabled while inCb # 0 are calls made by that callback.   *)
(***************************************************************************)
EXTENDS Integers, Sequences, FiniteSets, TLC

\* ----- bounds of the model
MaxPush == 3        \* pushes (addToQueue and publish(message)) per behaviour
MaxSubs == 2        \* subscribe calls per behaviour
MaxPublish == 2     \* publish calls per behaviour
MaxOps == 5         \* subscribe, push and publish calls per behaviour, together

\* ----- inputs
Topics == {"A", "B"}
MsgIds == {0, 1}
Msgs == {m \in [topic : Topics, id : MsgIds] : m.topic = "A" \/ m.id = 0}
NoMsg == [topic |-> "", id |-> -1]
\* "none": constructed without a combinator; "parity": the ParityMessageCombinator
\* of the tests; "flip": merges a same-topic same-parity pair into a message of
\* the other parity, so that a cascade can go on; "newer": ignores the topic
\* field and always returns the newer message.
Combinators == {"none", "parity", "flip", "newer"}
Results == {"void", "true", "async", "throw"}
Settles == {"true", "false", "reject"}
IdArgs == 1..(MaxSubs + 1)
NoOp == [op |-> "", id |-> 0, ret |-> FALSE, arg |-> NoMsg]
NoTest == [name |-> "", i |-> 0]

\* combinator, queues: MessageQueue.  callbacks, idCounter: PubSub.  calls: the
\* publish calls made so far; pending: the deferred results not settled yet, each
\* with the call that awaits it and the number k of messages the call had
\* delivered before the one the result is for; running, inCb: whose synchronous code runs.
\* History: pushed, the pushes so far; issued, the ids subscribe returned;
\* unsubbed, the ids for which unsubscribe returned true; lost, a message was cleared from the queue
\* that no publish call had delivered; lastOp, the last step when it was a
\* publish call, a subscribe call, an unsubscribe call that returned true, a
\* callback that threw or the rejection of a deferred result, with its argument
\* or the id concerned.
\* test: the loop of the test suite that is running, with its counter i (NoTest
\* when the calls are made by arbitrary user code).
VARIABLES test, combinator, queues, callbacks, idCounter, calls, pending,
          running, inCb, pushed, issued, unsubbed, lost, lastOp

vars == <<test, combinator, queues, callbacks, idCounter, calls, pending,
          running, inCb, pushed, issued, unsubbed, lost, lastOp>>

\* ----- MessageCombinator.combine(older, newer): a message, or NoMsg for undefined
Combine(c, older, newer) ==
  CASE c = "parity" ->
         IF older.topic # newer.topic THEN NoMsg
         ELSE IF older.id % 2 = newer.id % 2 THEN older ELSE NoMsg
    [] c = "flip" ->
         IF older.topic # newer.topic THEN NoMsg
         ELSE IF older.id % 2 = newer.id % 2
              THEN [topic |-> older.topic, id |-> (older.id + 1) % 2]
              ELSE NoMsg
    [] c = "newer" -> newer
    [] OTHER -> NoMsg

\* ----- MessageQueue
\* queues: the Map<string, Message[]>, as its entries in insertion order, each
\* [topic, msgs]; seen (history) tells for each element of msgs whether a
\* publish call has delivered it.
TopicIndex_New(qs, t) == 0

TopicIndex_Flat(qs, t) == IF Len(qs) > 0 THEN 1 ELSE 0

\* this.queues.has / get (message.topic): the entry of topic t, or 0
TopicIndex(qs, t) ==
  IF \E i \in 1..Len(qs) : qs[i].topic = t
  THEN CHOOSE i \in 1..Len(qs) : qs[i].topic = t
  ELSE 0

GetQueue(qs, t) == IF TopicIndex(qs, t) = 0 THEN <<>> ELSE qs[TopicIndex(qs, t)].msgs

Front(s) == SubSeq(s, 1, Len(s) - 1)

Cascade_SkipBack(c, queue, message) ==
  IF \E k \in 1..Len(queue) : Combine(c, queue[k], message) # NoMsg
  THEN queue
  ELSE Append(queue, message)

Cascade_Once(c, queue, message) ==
  IF Combine(c, queue[Len(queue)], message) # NoMsg
  THEN Append(Front(queue), Combine(c, queue[Len(queue)], message))
  ELSE Append(queue, message)

\* the do-while cascade of push: queue is non-empty on entry
RECURSIVE Cascade(_, _, _)
Cascade(c, queue, message) ==
  LET older == queue[Len(queue)]
      combinedMessage == Combine(c, older, message)
  IN IF combinedMessage # NoMsg
     THEN IF Len(queue) > 1
          THEN Cascade(c, Front(queue), combinedMessage)
          ELSE <<combinedMessage>>
     ELSE Append(queue, message)

PushTopic_Append(c, queue, message) == Append(queue, message)

PushTopic_NoPop(c, queue, message) ==
  IF Len(queue) < 1 \/ c = "none" \/ Combine(c, queue[Len(queue)], message) = NoMsg
  THEN Append(queue, message)
  ELSE Append(queue, Combine(c, queue[Len(queue)], message))

\* push, on the array of the message's topic
PushTopic(c, queue, message) ==
  IF Len(queue) < 1 \/ c = "none"
  THEN Append(queue, message)
  ELSE Cascade(c, queue, message)

\* history: the elements push left in place keep their marks; the last element
\* is a new message, unless it is the older message that a combination kept
Marks(old, seen, new) ==
  [k \in 1..Len(new) |->
     IF k < Len(new) \/ (k <= Len(old) /\ old[k] = new[k]) THEN seen[k] ELSE FALSE]

Push(c, qs, message) ==
  LET i == TopicIndex(qs, message.topic)
      new == PushTopic(c, qs[i].msgs, message)
  IN IF i = 0
     THEN Append(qs, [topic |-> message.topic,
                      msgs |-> PushTopic(c, <<>>, message), seen |-> <<FALSE>>])
     ELSE [qs EXCEPT ![i].msgs = new, ![i].seen = Marks(qs[i].msgs, qs[i].seen, new)]

RECURSIVE SumLen(_, _)
SumLen(qs, i) == IF i > Len(qs) THEN 0 ELSE Len(qs[i].msgs) + SumLen(qs, i + 1)

GetLength(qs) == SumLen(qs, 1)

\* the sequence the generator yields over an unchanging queue
RECURSIVE Flatten(_, _)
Flatten(qs, i) == IF i > Len(qs) THEN <<>> ELSE qs[i].msgs \o Flatten(qs, i + 1)

Start ==
  /\ queues = <<>>
  /\ callbacks = {}
  /\ idCounter = 0
  /\ calls = <<>>
  /\ pending = {}
  /\ running = 0
  /\ inCb = 0
  /\ pushed = 0
  /\ issued = <<>>
  /\ unsubbed = <<>>
  /\ lost = FALSE
  /\ lastOp = NoOp

Init ==
  /\ test = NoTest
  /\ combinator \in Combinators
  /\ Start

\* user code may call the API: from a task of its own or from a callback body
UserCode == running = 0 \/ inCb # 0

\* the model's budget of calls allows `n` more
Budget(n) == idCounter + pushed + Len(calls) + n <= MaxOps

\* a publish call that has started and has neither completed nor failed
Active(c) == c.pc \in {"cb", "await"}

\* push's first probe combines: an entry of the topic's queue is popped
Combines(c, qs, message) ==
  /\ c # "none"
  /\ Len(GetQueue(qs, message.topic)) >= 1
  /\ Combine(c, GetQueue(qs, message.topic)[Len(GetQueue(qs, message.topic))], message) # NoMsg

\* history: the publish calls in progress when an entry was popped by a push
MarkDisturbed(cs, yes) ==
  [p \in 1..Len(cs) |->
     IF yes /\ Active(cs[p]) THEN [cs[p] EXCEPT !.disturbed = TRUE] ELSE cs[p]]

\* ----- PubSub: the registry
GenerateId_PostIncrement(counter) == [idCounter |-> counter + 1, id |-> counter]

\* generateId: `return ++this.idCounter`, the counter after the call and the id
GenerateId(counter) == [idCounter |-> counter + 1, id |-> counter + 1]

Delete(cbs, id) == cbs \ {id}

Has(cbs, id) == id \in cbs

\* `if (result === true) this.callbacks.delete(id)`, and the same for the settled
\* value of a deferred result
Remove_Never(cbs, id, result) == cbs

Remove_OnAny(cbs, id, result) == IF result # "async" THEN Delete(cbs, id) ELSE cbs

Remove(cbs, id, result) == IF result = "true" THEN Delete(cbs, id) ELSE cbs

IsSubscribed(id) == Has(callbacks, id)

GetQueueLength == GetLength(queues)

Subscribe ==
  /\ UserCode
  /\ idCounter < MaxSubs
  /\ Budget(1)
  /\ idCounter' = GenerateId(idCounter).idCounter
  /\ callbacks' = callbacks \cup {GenerateId(idCounter).id}
  /\ issued' = Append(issued, GenerateId(idCounter).id)
  /\ lastOp' = [NoOp EXCEPT !.op = "subscribe", !.id = GenerateId(idCounter).id]
  /\ UNCHANGED <<test, combinator, queues, calls, pending, running, inCb, pushed,
                 unsubbed, lost>>

UnsubscribeResult_AlwaysTrue(cbs, id) == TRUE

\* what Map.delete returns: whether the entry was there
UnsubscribeResult(cbs, id) == Has(cbs, id)

Unsubscribe(id) ==
  /\ UserCode
  /\ callbacks' = Delete(callbacks, id)
  /\ lastOp' = IF UnsubscribeResult(callbacks, id)
               THEN [NoOp EXCEPT !.op = "unsubscribe", !.id = id, !.ret = TRUE]
               ELSE NoOp
  /\ unsubbed' = IF UnsubscribeResult(callbacks, id) THEN Append(unsubbed, id)
                 ELSE unsubbed
  /\ UNCHANGED <<test, combinator, queues, idCounter, calls, pending, running, inCb,
                 pushed, issued, lost>>

\* addToQueue(message): the queue and the calls (their history) after it
AddOutcome(message, qs, cs) ==
  [queues |-> Push(combinator, qs, message),
   calls |-> MarkDisturbed(cs, Combines(combinator, qs, message))]

AddToQueue(message) ==
  /\ UserCode
  /\ pushed < MaxPush
  /\ Budget(1)
  /\ queues' = AddOutcome(message, queues, calls).queues
  /\ calls' = AddOutcome(message, queues, calls).calls
  /\ pushed' = pushed + 1
  /\ lastOp' = NoOp
  /\ UNCHANGED <<test, combinator, callbacks, idCounter, pending, running, inCb, issued,
                 unsubbed, lost>>

\* ----- PubSub.publish
\* One record per publish call.  pc: "loop" at the head of the for-of over the
\* queue, "each" inside callbacks.forEach (both only while its synchronous code
\* runs), "cb" in a callback body, "await" at await Promise.all(asyncOps), "done"
\* fulfilled, "failed" rejected.
\* (qi, mi): the generator's position, entry qi of the Map and mi elements of its
\* array consumed; det/arr: the array it is iterating was dropped from the Map by
\* makeEmpty and lives on only in the generator.
\* msg, last: the message being delivered and the last entry forEach visited.
\* History: todo, the messages queued when the traversal started that the call
\* has not delivered yet; start and invoked, the registry when the forEach of the
\* current message started and the subscriptions it has invoked; served, no
\* forEach ended with a subscription live throughout it and not invoked; nDel,
\* the messages delivered; awaited, the call has waited for deferred results;
\* trueIds, the subscriptions that signalled true to this call; lenDone, the
\* queue length when the call completed; disturbed, an entry was popped or the
\* queue was cleared by someone else during the call; init, the messages queued
\* when the traversal started; got, the messages the call has delivered, in
\* order; cause, how the call failed ("throw": a callback threw, "reject": a
\* deferred result rejected).
NewCall(qs) ==
  [pc |-> "loop", qi |-> 0, mi |-> 0, arr |-> <<>>, det |-> FALSE,
   msg |-> NoMsg, last |-> 0, start |-> {}, invoked |-> {},
   todo |-> Flatten(qs, 1), served |-> TRUE, nDel |-> 0, awaited |-> FALSE,
   trueIds |-> {}, lenDone |-> 0, disturbed |-> FALSE,
   init |-> Flatten(qs, 1), got |-> <<>>, cause |-> ""]

\* the array the generator of call c is iterating
CurrentArray(c, qs) ==
  IF c.det THEN c.arr ELSE IF c.qi = 0 THEN <<>> ELSE qs[c.qi].msgs

\* history: call c is positioned on `message`
Yield(c, message, cbs) ==
  [c EXCEPT !.pc = "each", !.msg = message, !.last = 0, !.start = cbs, !.invoked = {},
            !.got = Append(c.got, message),
            !.todo = IF c.todo # <<>> /\ Head(c.todo) = message
                     THEN Tail(c.todo) ELSE c.todo]

IterNext_SkipTopics(c, qs, cbs) ==
  LET cur == CurrentArray(c, qs)
  IN IF c.mi < Len(cur)
     THEN [c |-> Yield([c EXCEPT !.mi = c.mi + 1], cur[c.mi + 1], cbs),
           qs |-> IF c.det THEN qs ELSE [qs EXCEPT ![c.qi].seen[c.mi + 1] = TRUE]]
     ELSE IF c.qi = 0 /\ ~c.det /\ Len(qs) >= 1
     THEN [c |-> Yield([c EXCEPT !.qi = 1, !.mi = 1], qs[1].msgs[1], cbs),
           qs |-> [qs EXCEPT ![1].seen[1] = TRUE]]
     ELSE [c |-> [c EXCEPT !.pc = "done", !.arr = <<>>, !.det = FALSE, !.qi = 0,
                           !.mi = 0, !.msg = NoMsg],
           qs |-> qs]

\* The generator's next(): the call positioned on the next message (pc "each")
\* or finished (pc "done"), and the queue with that message marked as seen.
IterNext(c, qs, cbs) ==
  LET cur == CurrentArray(c, qs)
      nq == (IF c.det THEN 0 ELSE c.qi) + 1
  IN IF c.mi < Len(cur)
     THEN [c |-> Yield([c EXCEPT !.mi = c.mi + 1], cur[c.mi + 1], cbs),
           qs |-> IF c.det THEN qs ELSE [qs EXCEPT ![c.qi].seen[c.mi + 1] = TRUE]]
     ELSE IF nq <= Len(qs)
     THEN [c |-> Yield([c EXCEPT !.qi = nq, !.mi = 1, !.det = FALSE, !.arr = <<>>],
                       qs[nq].msgs[1], cbs),
           qs |-> [qs EXCEPT ![nq].seen[1] = TRUE]]
     ELSE [c |-> [c EXCEPT !.pc = "done", !.arr = <<>>, !.det = FALSE, !.qi = 0,
                           !.mi = 0, !.msg = NoMsg],
           qs |-> qs]

NextCallback_FirstOnly(cbs, last) ==
  IF last = 0 /\ cbs # {}
  THEN CHOOSE id \in cbs : \A other \in cbs : id <= other
  ELSE 0

\* Map.forEach visits the entries in insertion order, which is id order, and sees
\* the entries added and removed while it runs: the next entry after `last`, or 0
NextCallback(cbs, last) ==
  IF \E id \in cbs : id > last
  THEN CHOOSE id \in cbs : id > last /\ \A other \in cbs : other > last => id <= other
  ELSE 0

\* the forEach of the current message is over
EndForEach(c, cbs) ==
  [c EXCEPT !.msg = NoMsg, !.last = 0, !.start = {}, !.invoked = {},
            !.nDel = c.nDel + 1,
            !.served = c.served /\ (c.start \cap cbs) \subseteq c.invoked]

Awaits_Never(asyncOps) == FALSE

\* `if (asyncOps.length > 0) await Promise.all(asyncOps)`
Awaits(asyncOps) == asyncOps

\* The synchronous code of publish from the position of c up to the next point
\* where other code runs: a callback body (pc "cb"), the await (pc "await") or
\* the end of the loop (pc "done").  asyncOps: the current message has recorded
\* deferred results.
RECURSIVE Run(_, _, _, _)
Run(c, qs, cbs, asyncOps) ==
  IF c.pc = "loop"
  THEN LET n == IterNext(c, qs, cbs)
       IN IF n.c.pc = "done" THEN n ELSE Run(n.c, n.qs, cbs, FALSE)
  ELSE LET id == NextCallback(cbs, c.last)
       IN IF id # 0
          THEN [c |-> [c EXCEPT !.pc = "cb", !.last = id,
                                !.invoked = c.invoked \cup {id}],
                qs |-> qs]
          ELSE IF Awaits(asyncOps)
          THEN [c |-> [EndForEach(c, cbs) EXCEPT !.pc = "await", !.awaited = TRUE],
                qs |-> qs]
          ELSE Run([EndForEach(c, cbs) EXCEPT !.pc = "loop"], qs, cbs, FALSE)

\* makeEmpty: Map.clear() empties the Map; a suspended generator keeps the array
\* it is iterating and will see only the entries added after the clear
MakeEmpty(cs, qs, self) ==
  [p \in 1..Len(cs) |->
     IF p # self /\ Active(cs[p])
     THEN [cs[p] EXCEPT !.arr = CurrentArray(cs[p], qs), !.det = TRUE, !.qi = 0,
                        !.disturbed = TRUE]
     ELSE cs[p]]

\* history: an element of the queue has been delivered by no call
Unseen(qs) == \E i \in 1..Len(qs) : \E k \in 1..Len(qs[i].seen) : ~qs[i].seen[k]

After_Yields(p, cs, c, qs, cbs, asyncOps) ==
  [queues |-> Run(c, qs, cbs, asyncOps).qs,
   calls |-> [cs EXCEPT ![p] = Run(c, qs, cbs, asyncOps).c],
   running |-> 0, inCb |-> 0, lost |-> FALSE]

\* Call p goes on from c: the queue, the calls and the control when its
\* synchronous code has run, the final makeEmpty included.
After(p, cs, c, qs, cbs, asyncOps) ==
  LET n == Run(c, qs, cbs, asyncOps)
  IN IF n.c.pc = "done"
     THEN [queues |-> <<>>,
           calls |-> [MakeEmpty(cs, n.qs, p) EXCEPT ![p] = [n.c EXCEPT !.lenDone = GetLength(<<>>)]],
           running |-> 0, inCb |-> 0, lost |-> Unseen(n.qs)]
     ELSE [queues |-> n.qs, calls |-> [cs EXCEPT ![p] = n.c],
           running |-> IF n.c.pc = "cb" THEN p ELSE 0,
           inCb |-> IF n.c.pc = "cb" THEN n.c.last ELSE 0, lost |-> FALSE]

Continue(r) ==
  /\ queues' = r.queues
  /\ calls' = r.calls
  /\ running' = r.running
  /\ inCb' = r.inCb
  /\ lost' = (lost \/ r.lost)

PublishPush_Append(c, qs, message) ==
  IF message # NoMsg THEN Push("none", qs, message) ELSE qs

\* `if (newMessage != null) this.messageQueue.push(newMessage)`
PublishPush(c, qs, message) == IF message # NoMsg THEN Push(c, qs, message) ELSE qs

\* publish(message), or publish() for NoMsg, called with the queue qs and the
\* calls cs: the state when its synchronous code has run
PublishOutcome(message, qs, cs, cbs) ==
  LET q == PublishPush(combinator, qs, message)
      d == MarkDisturbed(cs, message # NoMsg /\ Combines(combinator, qs, message))
  IN After(Len(cs) + 1, Append(d, NewCall(q)), NewCall(q), q, cbs, FALSE)

PublishCall(message) ==
  /\ running = 0
  /\ Len(calls) < MaxPublish
  /\ message # NoMsg => pushed < MaxPush
  /\ Budget(IF message # NoMsg THEN 2 ELSE 1)
  /\ pushed' = IF message # NoMsg THEN pushed + 1 ELSE pushed
  /\ Continue(PublishOutcome(message, queues, calls, callbacks))
  /\ lastOp' = [NoOp EXCEPT !.op = "publish", !.arg = message]
  /\ UNCHANGED <<test, combinator, callbacks, idCounter, pending, issued, unsubbed>>

Failed_Swallowed(c, cause) == c

\* what a failed call leaves behind: nothing of it runs again
Failed(c, cause) ==
  [c EXCEPT !.pc = "failed", !.arr = <<>>, !.det = FALSE, !.qi = 0, !.mi = 0,
            !.msg = NoMsg, !.last = 0, !.start = {}, !.invoked = {},
            !.cause = cause]

Thrown_DropsFirst(p, cs, qs) ==
  [queues |-> IF qs = <<>> THEN qs ELSE Tail(qs),
   calls |-> [cs EXCEPT ![p] = Failed(cs[p], "throw")],
   running |-> 0, inCb |-> 0, lost |-> FALSE]

Thrown_Clears(p, cs, qs) ==
  [queues |-> <<>>, calls |-> [cs EXCEPT ![p] = Failed(cs[p], "throw")],
   running |-> 0, inCb |-> 0, lost |-> FALSE]

\* the callback of call p throws: the exception leaves forEach, the for-of and
\* publish, whose promise is rejected; makeEmpty is not reached
Thrown(p, cs, qs) ==
  [queues |-> qs, calls |-> [cs EXCEPT ![p] = Failed(cs[p], "throw")],
   running |-> 0, inCb |-> 0, lost |-> FALSE]

\* the callback returns `result`, the forEach body handles it and publish goes on
CallbackReturn(p, result) ==
  /\ running = p
  /\ calls[p].pc = "cb"
  /\ callbacks' = Remove(callbacks, inCb, result)
  /\ pending' = IF result = "async"
                THEN pending \cup {[p |-> p, id |-> inCb, k |-> calls[p].nDel]}
                ELSE pending
  /\ lastOp' = IF result = "throw" THEN [NoOp EXCEPT !.op = "throw", !.id = inCb]
               ELSE NoOp
  /\ IF result = "throw"
     THEN Continue(Thrown(p, calls, queues))
     ELSE Continue(After(p, calls,
                         [calls[p] EXCEPT !.pc = "each",
                                          !.trueIds = IF result = "true"
                                                      THEN @ \cup {inCb} ELSE @],
                         queues, callbacks', \E a \in pending' : a.p = p))
  /\ UNCHANGED <<test, combinator, idCounter, pushed, issued, unsubbed>>

\* a deferred result settles: the then-handler of asyncOps runs, or the rejection
\* reaches Promise.all
Settle(a, value) ==
  /\ running = 0
  /\ a \in pending
  /\ pending' = pending \ {a}
  /\ callbacks' = Remove(callbacks, a.id, value)
  /\ lastOp' = IF value = "reject" THEN [NoOp EXCEPT !.op = "reject", !.id = a.id]
               ELSE NoOp
  /\ calls' = IF value = "reject" /\ calls[a.p].pc = "await"
              THEN [calls EXCEPT ![a.p] = Failed(calls[a.p], "reject")]
              ELSE IF value = "true"
              THEN [calls EXCEPT ![a.p].trueIds = @ \cup {a.id}]
              ELSE calls
  /\ UNCHANGED <<test, combinator, queues, idCounter, running, inCb, pushed, issued,
                 unsubbed, lost>>

Resume_Early(p) ==
  /\ running = 0
  /\ calls[p].pc = "await"
  /\ Continue(After(p, calls, [calls[p] EXCEPT !.pc = "loop"], queues, callbacks, FALSE))
  /\ lastOp' = NoOp
  /\ UNCHANGED <<test, combinator, callbacks, idCounter, pending, pushed, issued,
                 unsubbed>>

\* Promise.all(asyncOps) is fulfilled and the call continues after the await
Resume(p) ==
  /\ running = 0
  /\ calls[p].pc = "await"
  /\ ~ \E a \in pending : a.p = p
  /\ Continue(After(p, calls, [calls[p] EXCEPT !.pc = "loop"], queues, callbacks, FALSE))
  /\ lastOp' = NoOp
  /\ UNCHANGED <<test, combinator, callbacks, idCounter, pending, pushed, issued,
                 unsubbed>>

Next ==
  \/ Subscribe
  \/ \E id \in IdArgs : Unsubscribe(id)
  \/ \E m \in Msgs : AddToQueue(m)
  \/ \E m \in Msgs \cup {NoMsg} : PublishCall(m)
  \/ \E p \in 1..Len(calls), r \in Results : CallbackReturn(p, r)
  \/ \E a \in pending, v \in Settles : Settle(a, v)
  \/ \E p \in 1..Len(calls) : Resume(p)

Spec == Init /\ [][Next]_vars
\* ----- the loops of the test suite "Messages of the same topic must be able
\* to combined": TestLen rounds of addToQueue on a PubSub constructed with the
\* ParityMessageCombinator.  "preserved" pushes the ids i, "combined" the ids
\* 2 * i, "pattern" the ids i and i + 2 in each round.
TestLen == 100

Tests == {"preserved", "combined", "pattern"}

\* the messages round i of the test pushes, in order
TestRound(name, i) ==
  CASE name = "preserved" -> <<[topic |-> "A", id |-> i]>>
    [] name = "combined" -> <<[topic |-> "A", id |-> i * 2]>>
    [] name = "pattern" -> <<[topic |-> "A", id |-> i], [topic |-> "A", id |-> i + 2]>>

\* addToQueue of each message of ms, one after the other
RECURSIVE AddAll(_, _, _)
AddAll(c, qs, ms) ==
  IF ms = <<>> THEN qs ELSE AddAll(c, Push(c, qs, Head(ms)), Tail(ms))

TestInit ==
  /\ test \in {[name |-> t, i |-> 0] : t \in Tests}
  /\ combinator = "parity"
  /\ Start

\* one round of the test's for loop
TestLoop ==
  /\ test.i < TestLen
  /\ queues' = AddAll(combinator, queues, TestRound(test.name, test.i))
  /\ pushed' = pushed + Len(TestRound(test.name, test.i))
  /\ test' = [test EXCEPT !.i = @ + 1]
  /\ UNCHANGED <<combinator, callbacks, idCounter, calls, pending, running, inCb,
                 issued, unsubbed, lost, lastOp>>

TestNext == TestLoop

TestSpec == TestInit /\ [][TestNext]_vars

\* ----- the claims
Calls == 1..Len(calls)

PendingOf(p) == {a \in pending : a.p = p}

EverTrue == UNION {calls[p].trueIds : p \in Calls}

Unsubscribed == {unsubbed[i] : i \in 1..Len(unsubbed)}

C2_NoMessageDiscarded == ~lost

\* C3: when a publish call has completed, every subscription that signalled true
\* to it (immediately or by a settled deferred result) is unsubscribed; and a
\* subscription that never signalled true and that nobody unsubscribed is
\* subscribed.
C3_TrueRemovedOthersStay ==
  /\ \A p \in Calls : calls[p].pc = "done" => calls[p].trueIds \cap callbacks = {}
  /\ \A id \in 1..idCounter : id \notin EverTrue /\ id \notin Unsubscribed => IsSubscribed(id)

C3_Witness ==
  \E p \in Calls :
    /\ calls[p].pc = "done"
    /\ calls[p].awaited
    /\ calls[p].trueIds # {}
    /\ callbacks # {}

\* C4 as stated: the promise of publish never settles (fulfilled or rejected)
\* while a deferred result of its drain is pending.
C4_Original ==
  \A p \in Calls : calls[p].pc \in {"done", "failed"} => PendingOf(p) = {}

\* C4 amended: the promise of publish is fulfilled only when no deferred result
\* of its drain is pending and (for an undisturbed call) every queued message has
\* been delivered; it may be rejected while deferred results are pending.
C4_FulfilledAfterSettled ==
  \A p \in Calls :
    calls[p].pc = "done" =>
      /\ PendingOf(p) = {}
      /\ ~calls[p].disturbed => calls[p].todo = <<>>

C4_Witness ==
  \E p \in Calls : calls[p].pc = "done" /\ calls[p].awaited /\ calls[p].nDel >= 2

\* C5: in every state where publish can be called, publish(m) leaves the queue,
\* the calls and the control exactly as addToQueue(m) followed by publish() does.
C5_PublishEquivalent ==
  running = 0 =>
    \A m \in Msgs :
      PublishOutcome(m, queues, calls, callbacks) =
        LET a == AddOutcome(m, queues, calls)
        IN PublishOutcome(NoMsg, a.queues, a.calls, callbacks)

C5_Witness ==
  /\ lastOp.op = "publish"
  /\ lastOp.arg # NoMsg
  /\ inCb # 0
  /\ combinator # "none"
  /\ pushed >= 2
  /\ GetQueueLength = 1
\* an addToQueue step: a push was made and no publish call
AddStep == pushed' = pushed + 1 /\ Len(calls') = Len(calls)

\* C6: addToQueue invokes no callback (no publish call moves, nothing is
\* recorded or removed), and the queue length grows by exactly 1 unless the push
\* combines, in which case it stays or decreases; without a combinator no push
\* combines, so every push adds 1.
C6_AddToQueueOnlyQueues ==
  [][AddStep =>
       /\ running' = running /\ inCb' = inCb
       /\ callbacks' = callbacks /\ pending' = pending
       /\ \A p \in Calls : calls'[p] = [calls[p] EXCEPT !.disturbed = calls'[p].disturbed]
       /\ \E m \in Msgs : queues' = Push(combinator, queues, m)
       /\ \A m \in Msgs :
            queues' = Push(combinator, queues, m) =>
              IF Combines(combinator, queues, m)
              THEN GetLength(queues') <= GetLength(queues)
              ELSE GetLength(queues') = GetLength(queues) + 1
       /\ combinator = "none" => GetLength(queues') = GetLength(queues) + 1]_vars

C6_Witness ==
  /\ callbacks # {}
  /\ combinator = "flip"
  /\ calls = <<>>
  /\ pushed = 3
  /\ GetQueueLength = 1

\* C7: the ids subscribe has returned, in call order, are positive and strictly
\* increasing (so pairwise distinct, and none is issued again after its removal).
C7_IdsIncrease ==
  \A i \in 1..Len(issued) :
    /\ issued[i] > 0
    /\ \A j \in 1..Len(issued) : i < j => issued[i] < issued[j]

C7_Witness ==
  /\ lastOp.op = "subscribe"
  /\ lastOp.id = 2
  /\ ~IsSubscribed(1)
  /\ \E p \in Calls : 1 \in calls[p].trueIds

\* C8: unsubscribe(id) returns true at most once per id and only for an id that
\* was issued; after it isSubscribed(id) is false; for an id that is not
\* subscribed (removed before, or never issued) unsubscribe returns false,
\* isSubscribed is false and the registry is left as it is.
C8_UnsubscribeOnce ==
  /\ \A i, j \in 1..Len(unsubbed) : i # j => unsubbed[i] # unsubbed[j]
  /\ \A i \in 1..Len(unsubbed) : unsubbed[i] \in 1..idCounter /\ ~IsSubscribed(unsubbed[i])
  /\ lastOp.op = "unsubscribe" => lastOp.id \in Unsubscribed
  /\ \A id \in IdArgs :
       ~IsSubscribed(id) =>
         /\ ~UnsubscribeResult(callbacks, id)
         /\ Delete(callbacks, id) = callbacks
  /\ \A id \in IdArgs : id \notin 1..idCounter => ~IsSubscribed(id)

C8_Witness ==
  /\ lastOp.op = "unsubscribe"
  /\ Len(unsubbed) = 2
  /\ callbacks = {}

C11_Original == test.name = "preserved" /\ test.i = TestLen => GetQueueLength = 1

\* C11: through the parity combinator, pushing the ids 0, 2, 4, ... (all of one
\* parity) leaves exactly one message after every push, while pushing the ids
\* 0, 1, 2, ... leaves every message in the queue.
C11_ParityCollapses ==
  /\ test.name = "combined" /\ test.i >= 1 =>
       /\ GetQueueLength = 1
       /\ GetQueue(queues, "A") = <<[topic |-> "A", id |-> 0]>>
  /\ test.name = "preserved" => GetQueueLength = test.i

C11_Witness ==
  /\ test.name = "combined"
  /\ test.i = TestLen
  /\ pushed = TestLen
  /\ GetQueueLength = 1

\* C12: through the parity combinator, pushing in round i the id i and then the
\* id i + 2 leaves one more message after every round: after N rounds the queue
\* holds the ids 0 .. N-1 in order, N messages.
C12_PatternNetsOne ==
  test.name = "pattern" =>
    /\ GetQueueLength = test.i
    /\ \A k \in 1..Len(GetQueue(queues, "A")) : GetQueue(queues, "A")[k].id = k - 1

C12_Witness ==
  /\ test.name = "pattern"
  /\ test.i = TestLen
  /\ pushed = 2 * TestLen
  /\ GetQueueLength = TestLen
\* s is a subsequence of t
RECURSIVE IsSubseq(_, _)
IsSubseq(s, t) ==
  IF s = <<>> THEN TRUE
  ELSE IF t = <<>> THEN FALSE
  ELSE IF Head(s) = Head(t) THEN IsSubseq(Tail(s), Tail(t))
  ELSE IsSubseq(s, Tail(t))

\* a call that has failed stays as it is: it delivers nothing more, runs no more
Frozen(p) ==
  /\ calls'[p].pc = "failed"
  /\ calls'[p].cause = calls[p].cause
  /\ calls'[p].got = calls[p].got
  /\ calls'[p].nDel = calls[p].nDel
  /\ running' # p

\* C13: when a deferred result rejects while publish waits for it, the call
\* fails in that step, the step leaves the queue as it is (an undisturbed call
\* leaves every message of its traversal queued), and the failed call delivers
\* nothing afterwards.
C13_RejectAborts ==
  [][\A p \in Calls :
       /\ lastOp'.op = "reject" /\ calls[p].pc = "await"
            /\ (\E a \in pending \ pending' : a.p = p) =>
            /\ calls'[p].pc = "failed"
            /\ calls'[p].cause = "reject"
            /\ calls'[p].got = calls[p].got
            /\ queues' = queues
            /\ ~calls[p].disturbed =>
                 /\ GetLength(queues') >= 1
                 /\ IsSubseq(calls[p].init, Flatten(queues', 1))
       /\ calls[p].cause = "reject" => Frozen(p)]_vars

C13_Witness ==
  \E p \in Calls :
    /\ calls[p].cause = "reject"
    /\ calls[p].todo # <<>>
    /\ ~calls[p].disturbed
    /\ \E r \in Calls : p < r /\ calls[r].pc = "done"
\* C14: when a callback throws, the call fails in that step and the step leaves
\* the queue as it is (an undisturbed call leaves every message it has not
\* delivered queued); the failed call delivers nothing afterwards; a publish
\* call made later traverses everything that is queued when it starts, and
\* when it completes undisturbed it has delivered all of it.
C14_ThrowAborts ==
  [][/\ \A p \in Calls :
          /\ lastOp'.op = "throw" /\ running = p =>
               /\ calls'[p].pc = "failed"
               /\ calls'[p].cause = "throw"
               /\ calls'[p].got = calls[p].got
               /\ running' = 0 /\ inCb' = 0
               /\ queues' = queues
               /\ callbacks' = callbacks
               /\ ~calls[p].disturbed => IsSubseq(calls[p].todo, Flatten(queues', 1))
          /\ calls[p].cause = "throw" => Frozen(p)
     /\ Len(calls') = Len(calls) + 1 =>
          calls'[Len(calls')].got \o calls'[Len(calls')].todo
            = Flatten(PublishPush(combinator, queues, lastOp'.arg), 1)
     /\ \A p, r \in 1..Len(calls') :
          /\ p < r /\ calls'[p].cause = "throw"
          /\ calls'[r].pc = "done" /\ ~calls'[r].disturbed
          => calls'[r].todo = <<>> /\ IsSubseq(calls'[r].init, calls'[r].got)]_vars

C14_Witness ==
  \E p, r \in Calls :
    /\ p < r
    /\ calls[p].cause = "throw"
    /\ calls[p].todo # <<>>
    /\ calls[r].pc = "done"
    /\ ~calls[r].disturbed
    /\ Len(calls[r].got) >= 2
    /\ IsSubseq(calls[p].todo, calls[r].got)
\* C15: a publish call delivers only messages that were queued when its
\* traversal started, in their order: a message pushed while the call is in
\* progress is not delivered by it.
C15_SnapshotTraversal == \A p \in Calls : IsSubseq(calls[p].got, calls[p].init)

\* C16: a callback is invoked for a message only if its subscription was in the
\* registry when the delivery of that message started.
C16_NewSubscriptionWaits == \A p \in Calls : calls[p].invoked \subseteq calls[p].start
\* no topic comes back in s after another topic
Grouped(s) ==
  \A i, j, k \in 1..Len(s) : i < j /\ j < k /\ s[i].topic = s[k].topic => s[j].topic = s[i].topic

\* C17: the messages a publish call has delivered are grouped by topic and,
\* while nothing has been popped or cleared during the call, are in the order of
\* the queue, topic after topic; a push that does not combine puts the message
\* behind the messages of its topic, and a new topic behind all topics; so the
\* pushes a(T1), b(T2), c(T1) are traversed in the order a, c, b.
C17_TopicOrder ==
  /\ \A p \in Calls :
       ~calls[p].disturbed =>
         /\ Grouped(calls[p].got)
         /\ Active(calls[p]) => IsSubseq(calls[p].got, Flatten(queues, 1))
         /\ calls[p].pc = "done" => IsSubseq(calls[p].init, calls[p].got)
  /\ \A m \in Msgs :
       ~Combines(combinator, queues, m) =>
         LET i == TopicIndex(queues, m.topic)
             q == Push(combinator, queues, m)
         IN /\ \A j \in 1..Len(queues) :
                 /\ q[j].topic = queues[j].topic
                 /\ q[j].msgs = IF j = i THEN Append(queues[j].msgs, m) ELSE queues[j].msgs
            /\ i = 0 => /\ Len(q) = Len(queues) + 1
                        /\ q[Len(q)].topic = m.topic
                        /\ q[Len(q)].msgs = <<m>>
            /\ i # 0 => Len(q) = Len(queues)
  /\ \A a, b, c \in Msgs :
       a.topic = c.topic /\ a.topic # b.topic =>
         Flatten(AddAll("none", <<>>, <<a, b, c>>), 1) = <<a, c, b>>

C17_Witness ==
  /\ combinator = "none"
  /\ callbacks # {}
  /\ pushed = 3
  /\ \E p \in Calls :
       /\ calls[p].pc = "done"
       /\ ~calls[p].disturbed
       /\ calls[p].nDel = 3
       /\ calls[p].init = calls[p].got
       /\ calls[p].got = <<[topic |-> "A", id |-> 0], [topic |-> "A", id |-> 1],
                           [topic |-> "B", id |-> 0]>>
\* C18: when a publish call waits for deferred results, the forEach of the
\* current message is over and has invoked every subscription that was live
\* throughout it, and the results it waits for are those of that message; and
\* while a callback runs, the only deferred results of the call that are not
\* settled are results for the message being delivered.
C18_Serialized ==
  \A p \in Calls :
    /\ calls[p].pc = "await" =>
         /\ calls[p].served
         /\ calls[p].msg = NoMsg
         /\ running # p
         /\ \A a \in PendingOf(p) : a.k = calls[p].nDel - 1
    /\ calls[p].pc = "cb" =>
         /\ \A a \in PendingOf(p) : a.k = calls[p].nDel /\ a.id \in calls[p].invoked
         /\ calls[p].nDel = Len(calls[p].got) - 1

C18_Witness ==
  \E p \in Calls :
    /\ calls[p].pc = "cb"
    /\ calls[p].awaited
    /\ calls[p].nDel = 1
    /\ PendingOf(p) # {}
    /\ Cardinality(callbacks) = 2
\* C19: a subscription that has signalled true, immediately or through a
\* deferred result, is out of the registry from that step on, so before the
\* next callback is invoked, and no callback of it is invoked afterwards.
C19_TrueRemovedAtOnce ==
  /\ EverTrue \cap callbacks = {}
  /\ inCb # 0 => inCb \notin EverTrue
  /\ \A p \in Calls :
       calls[p].pc = "cb" =>
         /\ running = p
         /\ calls[p].last = inCb
         /\ IsSubscribed(inCb) \/ inCb \in Unsubscribed

C19_Witness ==
  \E p \in Calls :
    /\ calls[p].pc = "cb"
    /\ calls[p].invoked \cap calls[p].trueIds # {}
    /\ inCb \notin calls[p].trueIds
    /\ calls[p].nDel = 0
\* C20 as stated: while a publish call is suspended, no publish call made after
\* it has delivered a message.
C20_Original ==
  \A p, r \in Calls : p < r /\ calls[p].pc = "await" => calls[r].got = <<>>

\* C20: at most one publish call executes at a time, and a call that is not
\* executing is suspended at the wait for the deferred results of its current
\* message; publish calls are not serialized: a publish() made while a call is
\* suspended delivers the first queued message at once and, when it completes
\* in that step, clears the queue.
C20_OneAtATime ==
  /\ \A p \in Calls :
       /\ calls[p].pc \in {"cb", "await", "done", "failed"}
       /\ calls[p].pc = "cb" <=> running = p
       /\ Active(calls[p]) /\ running # p => calls[p].pc = "await"
  /\ running = 0 <=> inCb = 0
  /\ (running = 0 /\ queues # <<>> /\ \E p \in Calls : calls[p].pc = "await") =>
       LET o == PublishOutcome(NoMsg, queues, calls, callbacks)
           r == Len(calls) + 1
       IN /\ o.calls[r].got # <<>>
          /\ o.calls[r].got[1] = Flatten(queues, 1)[1]
          /\ o.calls[r].pc = "done" =>
               /\ o.queues = <<>>
               /\ \A p \in Calls : calls[p].pc = "await" => o.calls[p].disturbed

C20_Witness ==
  \E p, r \in Calls :
    /\ p < r
    /\ calls[p].pc = "await"
    /\ PendingOf(p) # {}
    /\ calls[r].pc = "done"
    /\ calls[r].got # <<>>
    /\ calls[p].disturbed
    /\ queues = <<>>
\* the messages of the queue, topic by topic, without the history marks
Contents(qs) == [i \in 1..Len(qs) |-> [topic |-> qs[i].topic, msgs |-> qs[i].msgs]]

\* a step of a publish call: a call starts, or a call moves
PublishStep ==
  \/ Len(calls') > Len(calls)
  \/ \E p \in Calls : calls'[p] # [calls[p] EXCEPT !.disturbed = calls'[p].disturbed]

\* C21: a step of publish leaves the messages of the queue as they are (after
\* the initial push), unless a call completes in it and clears the queue; so in
\* the step in which a call fails the queue keeps its messages, for an
\* undisturbed call every message of its traversal, the delivered ones
\* included; and a publish call starts with the first queued message.
C21_QueueKeptOnFailure ==
  [][LET base == IF Len(calls') > Len(calls)
                 THEN PublishPush(combinator, queues, lastOp'.arg) ELSE queues
     IN /\ PublishStep =>
             \/ Contents(queues') = Contents(base)
             \/ /\ queues' = <<>>
                /\ \E p \in 1..Len(calls') :
                     /\ calls'[p].pc = "done"
                     /\ p \in Calls => calls[p].pc # "done"
        /\ \A p \in Calls :
             calls[p].pc # "failed" /\ calls'[p].pc = "failed" =>
               /\ Contents(queues') = Contents(queues)
               /\ ~calls[p].disturbed =>
                    /\ IsSubseq(calls[p].init, Flatten(queues', 1))
                    /\ IsSubseq(calls[p].got, Flatten(queues', 1))
        /\ Len(calls') > Len(calls) =>
             /\ calls'[Len(calls')].init = Flatten(base, 1)
             /\ base # <<>> => calls'[Len(calls')].got[1] = Flatten(base, 1)[1]]_vars

C21_Witness ==
  \E p, r \in Calls :
    /\ p < r
    /\ calls[p].pc = "failed"
    /\ calls[p].nDel >= 1
    /\ ~calls[p].disturbed
    /\ calls[r].init = calls[p].init
    /\ calls[r].pc = "cb"
    /\ calls[r].got = <<calls[p].got[1]>>
====
